---- MODULE Spec2Model ----
(***************************************************************************)
(* Yantra dimension generator: the calculator of yantra_core.py (and its   *)
(* copy in yantra_report_app.py), the command-line main() of yantra_app.py *)
(* and yantra_report_app.py, and the Streamlit form of yantra_web_app.py.  *)
(*                                                                         *)
(* Numbers.  A Python float is an IEEE-754 binary64.  Its magnitude is     *)
(* kept exactly, as a fixed-point numeral of NL limbs in base B = 2^15,    *)
(* least significant limb first, FL of them below the binary point: limb i *)
(* weighs B^(i-1-FL).  Every float operation of the code computes the      *)
(* exact result on limbs and rounds it to 53 significant bits, ties to     *)
(* even, as the hardware does.  Text produced by an f-string is kept as    *)
(* its decimal digits.                                                     *)
(***************************************************************************)
EXTENDS Integers, Sequences, FiniteSets, TLC

W == 3 * 5                      \* bits in a limb
B == 2^W                        \* the limb base
FL == 2 * 4                     \* limbs below the binary point (120 bits)
NL == FL + 6                    \* limbs of a numeral

\* a function on 1..n as the tuple of its values
Tup(f) == f \o <<>>
Zero == Tup([i \in 1..NL |-> 0])
IsZero(a) == \A i \in 1..Len(a) : a[i] = 0

\* a + b: limb i takes a carry when a lower limb overflows and every limb
\* between passes the carry on
Add(a, b) ==
    LET s == Tup([i \in 1..Len(a) |-> a[i] + b[i]])
        cin(i) == \E j \in 1..(i - 1) :
                      s[j] >= B /\ \A k \in (j + 1)..(i - 1) : s[k] >= B - 1
    IN  Tup([i \in 1..Len(a) |-> (s[i] + (IF cin(i) THEN 1 ELSE 0)) % B])

\* a - b for a >= b
Sub(a, b) ==
    LET d == Tup([i \in 1..Len(a) |-> a[i] - b[i]])
        bin(i) == \E j \in 1..(i - 1) :
                      d[j] < 0 /\ \A k \in (j + 1)..(i - 1) : d[k] <= 0
    IN  Tup([i \in 1..Len(a) |-> (d[i] - (IF bin(i) THEN 1 ELSE 0) + B) % B])

\* -1, 0 or 1 as a < b, a = b, a > b
Cmp(a, b) ==
    IF \A i \in 1..Len(a) : a[i] = b[i] THEN 0
    ELSE LET i == CHOOSE i \in 1..Len(a) :
                      a[i] # b[i] /\ \A k \in (i + 1)..Len(a) : a[k] = b[k]
         IN  IF a[i] > b[i] THEN 1 ELSE -1

\* a * n for a natural n <= B
MulSmall(a, n) ==
    Add(Tup([i \in 1..Len(a) |-> (a[i] * n) % B]),
        Tup([i \in 1..Len(a) |-> IF i = 1 THEN 0 ELSE (a[i - 1] * n) \div B]))

\* long division by a natural, limb st.i next, st.r the remainder so far
RECURSIVE DivSmallFrom(_, _, _)
DivSmallFrom(a, n, st) ==
    IF st.i = 0 THEN st
    ELSE LET t == st.r * B + a[st.i]
         IN  DivSmallFrom(a, n, [i |-> st.i - 1, r |-> t % n, q |-> <<t \div n>> \o st.q])
\* quotient and remainder of a by a natural 0 < n <= B, in units of a's last limb
DivSmall(a, n) == DivSmallFrom(a, n, [i |-> Len(a), r |-> 0, q |-> <<>>])

\* a * B^k, limbs pushed out of the numeral dropped
ShiftLimbs(a, k) ==
    Tup([i \in 1..Len(a) |-> IF i - k \in 1..Len(a) THEN a[i - k] ELSE 0])

Widen(a) == a \o Zero

RECURSIVE SumTo(_, _)
SumTo(f, n) == IF n = 0 THEN 0 ELSE f[n] + SumTo(f, n - 1)
\* the exact product, 2*NL limbs with 2*FL below the point: column k sums the
\* low halves of the limb products of weight k and the high halves of weight k-1
MulWide(a, b) ==
    LET lo(k) == SumTo([i \in 1..NL |->
                          IF k + 1 - i \in 1..NL THEN (a[i] * b[k + 1 - i]) % B ELSE 0], NL)
        hi(k) == SumTo([i \in 1..NL |->
                          IF k - i \in 1..NL THEN (a[i] * b[k - i]) \div B ELSE 0], NL)
        col == Tup([k \in 1..(2 * NL) |-> lo(k) + hi(k)])
    IN  Add(Tup([k \in 1..(2 * NL) |-> col[k] % B]),
            Tup([k \in 1..(2 * NL) |-> IF k = 1 THEN 0 ELSE col[k - 1] \div B]))

\* the product cut to a numeral: [m |-> floor, sticky |-> bits were cut]
Mul(a, b) ==
    LET p == MulWide(a, b)
    IN  [m |-> SubSeq(p, FL + 1, FL + NL),
         sticky |-> \E i \in 1..FL : p[i] # 0]

\* the highest limb that is not 0 (0 when a is 0)
TopLimb(a) ==
    IF IsZero(a) THEN 0
    ELSE CHOOSE i \in 1..Len(a) : a[i] # 0 /\ \A k \in (i + 1)..Len(a) : a[k] = 0
BitLen(n) == CHOOSE k \in 1..W : 2^(k - 1) <= n /\ n < 2^k
\* position of the leading 1, counted from bit 0 of limb 1
MsbPos(a) == W * (TopLimb(a) - 1) + BitLen(a[TopLimb(a)]) - 1
Bit(a, k) == (a[k \div W + 1] \div 2^(k % W)) % 2
LowNonzero(a, k) ==
    \/ \E i \in 1..(k \div W) : a[i] # 0
    \/ a[k \div W + 1] % 2^(k % W) # 0
ClearBelow(a, c) ==
    Tup([i \in 1..Len(a) |->
            IF i < c \div W + 1 THEN 0
            ELSE IF i = c \div W + 1 THEN a[i] - (a[i] % 2^(c % W))
            ELSE a[i]])
OneAt(a, c) == Tup([i \in 1..Len(a) |-> IF i = c \div W + 1 THEN 2^(c % W) ELSE 0])

\* a (with bits below it when sticky) to a multiple of 2^c, nearest, ties to even
RoundAt(a, c, sticky) ==
    LET up == /\ Bit(a, c - 1) = 1
              /\ (sticky \/ LowNonzero(a, c - 1) \/ Bit(a, c) = 1)
        t  == ClearBelow(a, c)
    IN  IF up THEN Add(t, OneAt(a, c)) ELSE t

\* binary64 rounding: 53 significant bits
Round53(a, sticky) ==
    IF IsZero(a) THEN a
    ELSE LET c == MsbPos(a) - 52
         IN  IF c <= 0 THEN a ELSE RoundAt(a, c, sticky)

\* the limbs below the point of r / den, limb st.i next
RECURSIVE FracLimbs(_, _)
FracLimbs(den, st) ==
    IF st.i = 0 THEN st
    ELSE FracLimbs(den, [i |-> st.i - 1, r |-> (st.r * B) % den,
                         m |-> <<(st.r * B) \div den>> \o st.m])
\* n / den (den <= 10^4, n < B^2 * den) as a numeral, and whether it is cut
Ratio(n, den) ==
    LET f  == FracLimbs(den, [i |-> FL, r |-> n % den, m |-> <<>>])
        ip == n \div den
    IN  [m |-> f.m \o [i \in 1..(NL - FL) |->
                          IF i = 1 THEN ip % B ELSE IF i = 2 THEN ip \div B ELSE 0],
         sticky |-> f.r # 0]

\* the integer part of a numeral as a natural (it must be below B^2)
Floor(a) == a[FL + 1] + B * a[FL + 2]

(***************************************************************************)
(* Python floats.  k is "fin", "nan" or "inf"; neg is the sign bit; m the  *)
(* magnitude of a finite value.                                            *)
(***************************************************************************)
Fin(neg, m) == [k |-> "fin", neg |-> neg, m |-> m]
NaN == [k |-> "nan", neg |-> FALSE, m |-> Zero]
Inf(neg) == [k |-> "inf", neg |-> neg, m |-> Zero]
\* the float nearest to the decimal n / den
Dec(neg, n, den) == Fin(neg, Round53(Ratio(n, den).m, Ratio(n, den).sticky))
\* an int operand converted to float
Int2F(n) == IF n < 0 THEN Dec(TRUE, -n, 1) ELSE Dec(FALSE, n, 1)

FIsZero(x) == x.k = "fin" /\ IsZero(x.m)
FNeg(x) == [x EXCEPT !.neg = ~x.neg]
FAbs(x) == [x EXCEPT !.neg = FALSE]

\* x < y and x <= y as Python compares floats (false when either is nan)
FLt(x, y) ==
    /\ x.k # "nan" /\ y.k # "nan"
    /\ ~(FIsZero(x) /\ FIsZero(y))
    /\ IF x.neg # y.neg THEN x.neg
       ELSE IF x.k = "inf" \/ y.k = "inf"
            THEN IF x.neg THEN x.k = "inf" /\ y.k # "inf"
                 ELSE y.k = "inf" /\ x.k # "inf"
       ELSE IF x.neg THEN Cmp(x.m, y.m) = 1 ELSE Cmp(x.m, y.m) = -1
FLe(x, y) == x.k # "nan" /\ y.k # "nan" /\ ~FLt(y, x)
FGt(x, y) == FLt(y, x)

\* x + y and x - y of finite floats
FAdd(x, y) ==
    IF x.neg = y.neg THEN Fin(x.neg, Round53(Add(x.m, y.m), FALSE))
    ELSE CASE Cmp(x.m, y.m) = 1  -> Fin(x.neg, Round53(Sub(x.m, y.m), FALSE))
           [] Cmp(x.m, y.m) = -1 -> Fin(y.neg, Round53(Sub(y.m, x.m), FALSE))
           [] OTHER -> Fin(FALSE, Zero)
FSub(x, y) == FAdd(x, FNeg(y))

\* x * y
FMul(x, y) ==
    IF x.k = "nan" \/ y.k = "nan" THEN NaN
    ELSE IF x.k = "inf" \/ y.k = "inf"
         THEN IF FIsZero(x) \/ FIsZero(y) THEN NaN ELSE Inf(x.neg # y.neg)
    ELSE LET p == Mul(x.m, y.m)
         IN  Fin(x.neg # y.neg, Round53(p.m, p.sticky))

\* x / n for a finite x and a natural 0 < n < B
FDivInt(x, n) ==
    LET d == DivSmall(ShiftLimbs(Widen(x.m), FL), n)
    IN  Fin(x.neg, Round53(SubSeq(d.q, FL + 1, FL + NL),
                           d.r # 0 \/ \E i \in 1..FL : d.q[i] # 0))

\* x // n and x % n for a finite x >= 0 and a natural n < B: the remainder is
\* exact (fmod), the quotient is the floor of the exact quotient
FFloorDiv(x, n) == Int2F(Floor(x.m) \div n)
FMod(x, n) ==
    LET r == Floor(x.m) % n
    IN  Fin(FALSE, Tup([i \in 1..NL |-> IF i <= FL THEN x.m[i]
                                        ELSE IF i = FL + 1 THEN r ELSE 0]))
\* int(x) for a finite x >= 0 below B^2
F2Int(x) == Floor(x.m)

(***************************************************************************)
(* Text of numbers: sequences of decimal digits.                           *)
(***************************************************************************)
RECURSIVE NatDigits(_)
NatDigits(n) == IF n < 10 THEN <<n>> ELSE Append(NatDigits(n \div 10), n % 10)
RECURSIVE DigitsFrom(_)
DigitsFrom(a) ==
    IF IsZero(a) THEN <<>>
    ELSE LET d == DivSmall(a, 10^4)
             g == NatDigits(d.r)
         IN  DigitsFrom(d.q) \o [i \in 1..(4 - Len(g)) |-> 0] \o g
RECURSIVE Strip0(_)
Strip0(d) == IF d # <<>> /\ d[1] = 0 THEN Strip0(Tail(d)) ELSE d
\* the decimal digits of the natural a (limbs, units), at least w of them
Digits(a, w) ==
    LET d == Strip0(DigitsFrom(a))
    IN  IF Len(d) >= w THEN d ELSE [i \in 1..(w - Len(d)) |-> 0] \o d
RECURSIVE DigitsValue(_)
DigitsValue(d) == IF d = <<>> THEN 0 ELSE 10 * DigitsValue(SubSeq(d, 1, Len(d) - 1)) + d[Len(d)]

\* f"{n:02d}" for a natural n
Fmt02d(n) == IF n < 10 THEN <<0, n>> ELSE NatDigits(n)

\* f"{x:.pf}" for p <= 4: the exact value of x times 10^p, rounded to the
\* nearest integer, ties to even; "nan" and "inf" are written as words
FmtF(x, p) ==
    IF x.k # "fin" THEN [neg |-> x.neg, int |-> <<>>, frac |-> <<>>, word |-> x.k]
    ELSE LET u   == MulSmall(x.m, 10^p)
             ip  == ShiftLimbs(u, -FL)
             up  == /\ u[FL] >= B \div 2
                    /\ \/ u[FL] > B \div 2
                       \/ \E i \in 1..(FL - 1) : u[i] # 0
                       \/ ip[1] % 2 = 1
             r   == IF up THEN Add(ip, OneAt(ip, 0)) ELSE ip
             d   == Digits(r, p + 1)
         IN  [neg |-> x.neg, int |-> SubSeq(d, 1, Len(d) - p),
              frac |-> SubSeq(d, Len(d) - p + 1, Len(d)), word |-> ""]
\* the number a finite text of FmtF denotes, in units of 10^-p, without its sign
FmtUnits(t) == DigitsValue(t.int \o t.frac)

(***************************************************************************)
(* math.radians, math.tan.  radians(x) is x * degToRad with degToRad the   *)
(* float pi / 180.0 = 0x1.1df46a2529d39p-6.  tan is the float nearest to   *)
(* sin / cos of its float argument, each summed from its power series on   *)
(* numerals (the sums are within 2^-114 of the exact values).              *)
(***************************************************************************)
degToRad == Fin(FALSE, <<0, 0, 0, 0, 29924, 4756, 29802, 571, 0, 0, 0, 0, 0, 0>>)
math_radians(x) == FMul(x, degToRad)

\* the series  t - t*x2/(k(k+1)) + t*x2^2/(k(k+1)(k+2)(k+3)) - ...  summed
\* until its terms vanish: st.pos the added terms, st.neg the subtracted ones
RECURSIVE Series(_, _)
Series(x2, st) ==
    IF IsZero(st.t) THEN st
    ELSE Series(x2, [t    |-> DivSmall(Mul(st.t, x2).m, st.k * (st.k + 1)).q,
                     k    |-> st.k + 2,
                     plus |-> ~st.plus,
                     pos  |-> IF st.plus THEN Add(st.pos, st.t) ELSE st.pos,
                     neg  |-> IF st.plus THEN st.neg ELSE Add(st.neg, st.t)])
One == OneAt(Zero, W * FL)
SeriesFrom(t, k) == [t |-> t, k |-> k, plus |-> TRUE, pos |-> Zero, neg |-> Zero]
\* sin and cos of a numeral in [0, pi/2]
SinOf(a) == LET s == Series(Mul(a, a).m, SeriesFrom(a, 2)) IN Sub(s.pos, s.neg)
CosOf(a) == LET s == Series(Mul(a, a).m, SeriesFrom(One, 1)) IN Sub(s.pos, s.neg)

\* 1 / d for a numeral d in [2^-60, 2): Newton's iteration y <- y + y(1 - d y)
\* from the quotient of 2^30 by the leading 16 bits of d
NewtonStep(d, y) ==
    LET dy == Mul(d, y).m
    IN  IF Cmp(dy, One) <= 0 THEN Add(y, Mul(y, Sub(One, dy)).m)
        ELSE Sub(y, Mul(y, Sub(dy, One)).m)
RECURSIVE Newton(_, _)
Newton(d, st) ==
    IF st.n = 0 THEN st.y ELSE Newton(d, [n |-> st.n - 1, y |-> NewtonStep(d, st.y)])
Recip(d) ==
    LET p  == MsbPos(d)
        t  == SumTo([j \in 1..16 |-> Bit(d, p - 16 + j) * 2^(j - 1)], 16)
        y0 == MulSmall(OneAt(Zero, 2 * W * FL + 15 - 30 - p), 2^30 \div t)
    IN  Newton(d, [n |-> 4, y |-> y0])

\* math.sin(x) and math.cos(x) for a float x in [-pi/2, pi/2]
math_sin(x) == Fin(x.neg, Round53(SinOf(x.m), TRUE))
math_cos(x) == Fin(FALSE, Round53(CosOf(x.m), TRUE))
\* math.tan(x) for a float x in [-pi/2, pi/2]
math_tan(x) ==
    LET q == Mul(SinOf(x.m), Recip(CosOf(x.m)))
    IN  Fin(x.neg, Round53(q.m, TRUE))

(***************************************************************************)
(* State.  app names the program that runs.  The command-line programs     *)
(* use pc .. stdout.  calls is the history of the calls a client of        *)
(* yantra_core has made, with their results.  The web page has the values  *)
(* of its four widgets, st.session_state, the page the last run of the     *)
(* script has drawn, and the number of runs of the script so far.          *)
(***************************************************************************)
None == <<>>
VARIABLES app, pc, typed, latitude, longitude, base_radius, e, data, report_output, stdout,
          calls,
          lat_deg, lon_deg, R_input, unit_name, session_state, page, runs
cliVars == <<pc, typed, latitude, longitude, base_radius, e, data, report_output, stdout>>
libVars == <<calls>>
webVars == <<lat_deg, lon_deg, R_input, unit_name, session_state, page, runs>>
vars == <<app, cliVars, libVars, webVars>>

\* the state of the parts that do not run
CliOff ==
    /\ pc = "off" /\ typed = <<>>
    /\ latitude = None /\ longitude = None /\ base_radius = None
    /\ e = None /\ data = None /\ report_output = None
    /\ stdout = <<>>
LibOff == calls = <<>>
WebOff ==
    /\ lat_deg = None /\ lon_deg = None /\ R_input = None /\ unit_name = None
    /\ session_state = <<>> /\ page = None /\ runs = 0

(***************************************************************************)
(* yantra_core.py (the same two functions are repeated in                  *)
(* yantra_report_app.py).                                                  *)
(***************************************************************************)
OBLIQUITY_ECLIPTIC == Dec(FALSE, 2344, 100)
IST_REFERENCE_LONGITUDE == Dec(FALSE, 825, 10)

\* the locals of calculate_time_offset
time_offset_minutes(longitude_lambda) ==
    FMul(FSub(longitude_lambda, IST_REFERENCE_LONGITUDE), Int2F(4))
abs_offset_seconds(longitude_lambda) ==
    FMul(FAbs(time_offset_minutes(longitude_lambda)), Int2F(60))
hours(abs_seconds) == F2Int(FFloorDiv(abs_seconds, 3600))
minutes_wrong(abs_seconds) == F2Int(FFloorDiv(abs_seconds, 60))
minutes(abs_seconds) == F2Int(FFloorDiv(FMod(abs_seconds, 3600), 60))
seconds(abs_seconds) == F2Int(FMod(abs_seconds, 60))
direction_wrong(offset_minutes) ==
    IF FLt(offset_minutes, Int2F(0)) THEN "BEHIND" ELSE "AHEAD OF"
direction(offset_minutes) ==
    IF FGt(offset_minutes, Int2F(0)) THEN "AHEAD OF" ELSE "BEHIND"

\* the returned pair: str is f"{hours:02d}h {minutes:02d}m {seconds:02d}s
\* {direction} IST" kept by its parts, min the signed minute value
calculate_time_offset(longitude_lambda) ==
    [str |-> [hours     |-> Fmt02d(hours(abs_offset_seconds(longitude_lambda))),
              minutes   |-> Fmt02d(minutes(abs_offset_seconds(longitude_lambda))),
              seconds   |-> Fmt02d(seconds(abs_offset_seconds(longitude_lambda))),
              direction |-> direction(time_offset_minutes(longitude_lambda))],
     min |-> time_offset_minutes(longitude_lambda)]

eot_chart ==
    [Feb11 |-> Dec(TRUE, 142, 10), May14 |-> Dec(FALSE, 38, 10), Nov03 |-> Dec(FALSE, 164, 10)]

\* the returned dict; the unit signs after the numbers are fixed text
\* the locals of calculate_yantra_dimensions, by the inputs they depend on
samrat_gnomon_angle_wrong(phi) == math_radians(phi)
samrat_gnomon_angle(phi) == phi
samrat_gnomon_height_wrong(phi, R) == FMul(R, math_sin(math_radians(phi)))
samrat_gnomon_height(phi, R) == FMul(R, math_tan(math_radians(phi)))
nadivalaya_tilt_angle(phi) == FSub(Int2F(90), phi)
ZD_eq(phi) == FSub(Int2F(90), phi)
ZD_ss(phi) == FSub(ZD_eq(phi), OBLIQUITY_ECLIPTIC)
ZD_ws_wrong(phi) == FSub(ZD_eq(phi), OBLIQUITY_ECLIPTIC)
ZD_ws(phi) == FAdd(ZD_eq(phi), OBLIQUITY_ECLIPTIC)

calculate_yantra_dimensions_wrong(latitude_phi, longitude_lambda, base_radius_R) ==
    LET phi   == IF calls = <<>> THEN latitude_phi ELSE calls[Len(calls)].args[1]
        lmbda == longitude_lambda
        R     == base_radius_R
        time_offset == calculate_time_offset(lmbda)
    IN  [phi   |-> FmtF(phi, 4),
         lmbda |-> FmtF(lmbda, 4),
         R     |-> FmtF(R, 3),
         time_offset_str  |-> time_offset.str,
         time_offset_min  |-> time_offset.min,
         samrat_angle     |-> FmtF(samrat_gnomon_angle(phi), 3),
         samrat_height    |-> FmtF(samrat_gnomon_height(phi, R), 3),
         nadivalaya_tilt  |-> FmtF(nadivalaya_tilt_angle(phi), 3),
         bhitti_alignment |-> "Must be aligned precisely North-South (Local Meridian)",
         rasivalaya_zd_ss |-> FmtF(ZD_ss(phi), 3),
         rasivalaya_zd_ws |-> FmtF(ZD_ws(phi), 3),
         eot_chart        |-> eot_chart]
calculate_yantra_dimensions(latitude_phi, longitude_lambda, base_radius_R) ==
    LET phi   == latitude_phi
        lmbda == longitude_lambda
        R     == base_radius_R
        time_offset == calculate_time_offset(lmbda)
    IN  [phi   |-> FmtF(phi, 4),
         lmbda |-> FmtF(lmbda, 4),
         R     |-> FmtF(R, 3),
         time_offset_str  |-> time_offset.str,
         time_offset_min  |-> time_offset.min,
         samrat_angle     |-> FmtF(samrat_gnomon_angle(phi), 3),
         samrat_height    |-> FmtF(samrat_gnomon_height(phi, R), 3),
         nadivalaya_tilt  |-> FmtF(nadivalaya_tilt_angle(phi), 3),
         bhitti_alignment |-> "Must be aligned precisely North-South (Local Meridian)",
         rasivalaya_zd_ss |-> FmtF(ZD_ss(phi), 3),
         rasivalaya_zd_ws |-> FmtF(ZD_ws(phi), 3),
         eot_chart        |-> eot_chart]

(***************************************************************************)
(* Text typed at a prompt: a sequence of characters.                       *)
(***************************************************************************)
DigitChars == <<"0", "1", "2", "3", "4", "5", "6", "7", "8", "9">>
IsDigit(c) == \E d \in 1..10 : DigitChars[d] = c
DigitOf(c) == (CHOOSE d \in 1..10 : DigitChars[d] = c) - 1

\* str.strip(): the text without its leading and trailing blanks
RECURSIVE strip(_)
strip(s) ==
    IF s = <<>> THEN s
    ELSE IF s[1] = " " THEN strip(Tail(s))
    ELSE IF s[Len(s)] = " " THEN strip(SubSeq(s, 1, Len(s) - 1))
    ELSE s

\* the number a typed text writes, for the texts typed in this model:
\* [+-] digits [. digits] (at most four digits after the point) is the decimal
\* n / den, nan and inf are themselves, the other texts (words, the empty
\* line) are no number
literal(s) ==
    LET signed == s # <<>> /\ s[1] \in {"+", "-"}
        body   == IF signed THEN Tail(s) ELSE s
        points == {i \in 1..Len(body) : body[i] = "."}
        digs   == SelectSeq(body, IsDigit)
        after  == IF points = {} THEN 0 ELSE Len(body) - (CHOOSE i \in points : TRUE)
        k      == IF body = <<"n", "a", "n">> THEN "nan"
                  ELSE IF body = <<"i", "n", "f">> THEN "inf"
                  ELSE IF /\ digs # <<>>
                          /\ Cardinality(points) <= 1
                          /\ Len(digs) + Cardinality(points) = Len(body)
                       THEN "dec"
                  ELSE "bad"
    IN  [k |-> k, neg |-> s # <<>> /\ s[1] = "-",
         n |-> IF k = "dec" THEN DigitsValue([i \in 1..Len(digs) |-> DigitOf(digs[i])]) ELSE 0,
         den |-> 10^after]

\* float(s): the nearest float, or ok = FALSE when ValueError is raised
float(s) ==
    LET t == literal(s)
    IN  CASE t.k = "dec" -> [ok |-> TRUE, v |-> Dec(t.neg, t.n, t.den)]
          [] t.k = "nan" -> [ok |-> TRUE, v |-> NaN]
          [] t.k = "inf" -> [ok |-> TRUE, v |-> Inf(t.neg)]
          [] OTHER       -> [ok |-> FALSE, v |-> NaN]

\* the lines typed at the latitude prompt
LatitudeTexts ==
    { <<"0">>,
      <<"9", "0">>,
      <<"9", "0", ".", "0", "0", "0", "1">>,
      <<"-", "0", ".", "0", "0", "0", "1">>,
      <<"2", "6", ".", "9", "1", "6", "7">>,
      <<"4", "5">>,
      <<" ", "6", "6", ".", "5", "6", " ">>,
      <<"1", ".", "0", "0", "0", "5">>,
      <<"a", "b", "c">>,
      <<"n", "a", "n">> }
\* the lines typed at the longitude prompt
LongitudeTexts ==
    { <<"7", "5", ".", "8", "1", "6", "7">>,
      <<"8", "2", ".", "5">>,
      <<"8", "2", ".", "5", "0", "0", "1">>,
      <<"8", "2", ".", "4", "9", "9", "9">>,
      <<"0">>,
      <<"1", "8", "0">>,
      <<"1", "8", "0", ".", "0", "0", "0", "1">>,
      <<"-", "0", ".", "0", "0", "0", "1">>,
      <<"1", "4", ".", "2", "7", "5">>,
      <<"e", "a", "s", "t">> }
\* the lines typed at the radius prompt
RadiusTexts ==
    { <<"1", "0", ".", "0">>,
      <<"0">>,
      <<"0", ".", "0", "0", "0", "1">>,
      <<"-", "1">>,
      <<"n", "a", "n">>,
      <<"i", "n", "f">>,
      <<>>,
      <<"5", "0", "0">> }

(***************************************************************************)
(* yantra_web_app.py: the helper functions.  Unit names and symbols are    *)
(* sequences of characters.                                                *)
(***************************************************************************)
\* p in s: p is a run of consecutive characters of s
Contains(p, s) == \E i \in 0..(Len(s) - Len(p)) : SubSeq(s, i + 1, i + Len(p)) = p
\* s.split()[0]: the first run of characters without a blank (s has one)
FirstWord(s) ==
    LET start == CHOOSE i \in 1..Len(s) : s[i] # " " /\ \A j \in 1..(i - 1) : s[j] = " "
        stop  == CHOOSE i \in start..Len(s) :
                     /\ \A j \in start..i : s[j] # " "
                     /\ i = Len(s) \/ s[i + 1] = " "
    IN  SubSeq(s, start, stop)

\* a conversion that carries the sign of its argument into the text
deg_to_dms_wrong(deg0) ==
    LET deg     == FAbs(deg0)
        d       == F2Int(deg)
        m_float == FMul(FSub(deg, Int2F(d)), Int2F(60))
        m       == F2Int(m_float)
        s       == FMul(FSub(m_float, Int2F(m)), Int2F(60))
    IN  [d |-> NatDigits(d), m |-> NatDigits(m),
         s |-> FmtF(IF deg0.neg THEN FNeg(s) ELSE s, 2)]

\* deg_to_dms(deg): f"{sign * d}° {m}' {s:.2f}\"" kept by its three numbers
deg_to_dms(deg0) ==
    LET sign    == 1
        deg     == FAbs(deg0)
        d       == F2Int(deg)
        m_float == FMul(FSub(deg, Int2F(d)), Int2F(60))
        m       == F2Int(m_float)
        s       == FMul(FSub(m_float, Int2F(m)), Int2F(60))
    IN  [d |-> NatDigits(sign * d), m |-> NatDigits(m), s |-> FmtF(s, 2)]

get_scale_factor_wrong(R, unit) ==
    IF Contains(<<"A", "n", "g", "u", "l", "a">>, unit)
    THEN <<FMul(R, Dec(FALSE, 2, 10)), <<"m">>>>
    ELSE <<R, FirstWord(unit)>>
\* get_scale_factor(R_input, unit_name): the pair (radius, unit symbol)
get_scale_factor(R, unit) ==
    IF Contains(<<"A", "n", "g", "u", "l", "a">>, unit)
    THEN <<FMul(R, Dec(FALSE, 2, 100)), <<"m">>>>
    ELSE <<R, FirstWord(unit)>>

\* f"{x:.3f} {unit_symbol}"
WithUnit(x, unit_symbol) == [text |-> FmtF(x, 3), unit |-> unit_symbol]
tan15 == math_tan(math_radians(Int2F(15)))
tan45 == math_tan(math_radians(Int2F(45)))

\* generate_yantra_data: the returned dict
generate_yantra_data(lat, lon, R, unit) ==
    LET IST_MERIDIAN == Dec(FALSE, 825, 10)
        scaled       == get_scale_factor(R, unit)
        scale_R_calc == scaled[1]
        unit_symbol  == scaled[2]
        phi_rad      == math_radians(lat)
        height_of_pole_angle == lat
        colatitude_angle     == FSub(Int2F(90), lat)
        pala_bha_length      == FMul(scale_R_calc, math_tan(phi_rad))
        time_correction_minutes == FMul(FSub(lon, IST_MERIDIAN), Int2F(4))
        gnomon_angle           == lat
        gnomon_base_length     == FMul(scale_R_calc, math_cos(phi_rad))
        gnomon_vertical_height == FMul(scale_R_calc, math_sin(phi_rad))
    IN  [lat_dms |-> deg_to_dms(lat),
         lon_dms |-> deg_to_dms(lon),
         R_input |-> R,
         unit    |-> unit,
         unit_symbol |-> unit_symbol,
         colat_dms |-> deg_to_dms(colatitude_angle),
         pala_bha  |-> WithUnit(pala_bha_length, unit_symbol),
         time_corr_min  |-> FmtF(time_correction_minutes, 2),
         time_corr_desc |-> [abs |-> FmtF(FAbs(time_correction_minutes), 2),
                             word |-> IF FGt(time_correction_minutes, Int2F(0))
                                      THEN "ahead" ELSE "behind"],
         samrat_angle  |-> deg_to_dms(gnomon_angle),
         samrat_r      |-> WithUnit(scale_R_calc, unit_symbol),
         samrat_base   |-> WithUnit(gnomon_base_length, unit_symbol),
         samrat_height |-> WithUnit(gnomon_vertical_height, unit_symbol),
         samrat_declination_ex |-> WithUnit(FMul(scale_R_calc, tan15), unit_symbol),
         bhitti_r        |-> WithUnit(scale_R_calc, unit_symbol),
         bhitti_pole_alt |-> deg_to_dms(height_of_pole_angle),
         bhitti_equator_zd |-> deg_to_dms(colatitude_angle),
         nadi_tilt       |-> deg_to_dms(colatitude_angle),
         digamsa_diameter |-> WithUnit(FMul(Int2F(2), scale_R_calc), unit_symbol),
         digamsa_pillar   |-> WithUnit(FDivInt(scale_R_calc, 5), unit_symbol),
         rama_h     |-> WithUnit(scale_R_calc, unit_symbol),
         rama_r     |-> WithUnit(scale_R_calc, unit_symbol),
         rama_45deg |-> WithUnit(FMul(scale_R_calc, tan45), unit_symbol),
         epsilon    |-> FmtF(Dec(FALSE, 2344, 100), 2)]

\* the options of the unit selectbox
units ==
    << <<"m", "e", "t", "e", "r", "s">>,
       <<"f", "e", "e", "t">>,
       <<"c", "e", "n", "t", "i", "m", "e", "t", "e", "r", "s">>,
       <<"A", "n", "g", "u", "l", "a", " ", "(", "a", "p", "p", "r", "o", "x", ".", " ", "2", "c", "m", ")">> >>

(***************************************************************************)
(* yantra_app.py and yantra_report_app.py: main().  Both prompt for three  *)
(* numbers, check them, calculate, render REPORT_TEMPLATE and print; they  *)
(* differ in the lines printed around the report.  typed holds the lines   *)
(* read from the terminal so far.  The import check of jinja2 in           *)
(* yantra_report_app's main() passes whenever main() runs at all, since    *)
(* the module itself imports jinja2 when it is loaded.                     *)
(***************************************************************************)
Apps == {"yantra_app", "yantra_report_app"}

\* a template that words the tie at offset 0 as "ahead of"
render_wrong(d) ==
    [phi |-> d.phi, lmbda |-> d.lmbda, R |-> d.R,
     samrat_angle |-> d.samrat_angle, samrat_height |-> d.samrat_height,
     nadivalaya_tilt |-> d.nadivalaya_tilt,
     bhitti_alignment |-> d.bhitti_alignment,
     rasivalaya_zd_ws |-> d.rasivalaya_zd_ws,
     rasivalaya_zd_ss |-> d.rasivalaya_zd_ss,
     time_offset_str |-> d.time_offset_str,
     offset_wording |-> IF FLt(d.time_offset_min, Int2F(0)) THEN "behind" ELSE "ahead of",
     eot_chart |-> [Feb11 |-> FmtF(d.eot_chart.Feb11, 1),
                    May14 |-> FmtF(d.eot_chart.May14, 1),
                    Nov03 |-> FmtF(d.eot_chart.Nov03, 1)]]

\* template.render(data=data): the values put into REPORT_TEMPLATE, in the
\* order of the text; the chart values are written with their one decimal
render(d) ==
    [phi |-> d.phi, lmbda |-> d.lmbda, R |-> d.R,
     samrat_angle |-> d.samrat_angle, samrat_height |-> d.samrat_height,
     nadivalaya_tilt |-> d.nadivalaya_tilt,
     bhitti_alignment |-> d.bhitti_alignment,
     rasivalaya_zd_ws |-> d.rasivalaya_zd_ws,
     rasivalaya_zd_ss |-> d.rasivalaya_zd_ss,
     time_offset_str |-> d.time_offset_str,
     offset_wording |-> IF FGt(d.time_offset_min, Int2F(0)) THEN "ahead of" ELSE "behind",
     eot_chart |-> [Feb11 |-> FmtF(d.eot_chart.Feb11, 1),
                    May14 |-> FmtF(d.eot_chart.May14, 1),
                    Nov03 |-> FmtF(d.eot_chart.Nov03, 1)]]

Init ==
    /\ app \in Apps
    /\ pc = "start"
    /\ typed = <<>>
    /\ latitude = None /\ longitude = None /\ base_radius = None
    /\ e = None /\ data = None /\ report_output = None
    /\ stdout = <<>>
    /\ LibOff /\ WebOff

\* the two welcome lines
Start ==
    /\ pc = "start"
    /\ stdout' = <<"--- WELCOME TO YANTRA DIMENSION GENERATOR ---",
                   "Please enter the required geographical data for the construction site.">>
    /\ pc' = "latitude"
    /\ UNCHANGED <<libVars, webVars, app, typed, latitude, longitude, base_radius, e, data, report_output>>

\* latitude = float(input(...).strip())
InputLatitude(s) ==
    /\ pc = "latitude"
    /\ LET r == float(strip(s))
       IN  IF r.ok THEN latitude' = <<r.v>> /\ e' = e /\ pc' = "longitude"
           ELSE latitude' = latitude /\ e' = <<"could not convert string to float">>
                /\ pc' = "except"
    /\ typed' = Append(typed, s)
    /\ UNCHANGED <<libVars, webVars, app, longitude, base_radius, data, report_output, stdout>>

\* longitude = float(input(...).strip())
InputLongitude(s) ==
    /\ pc = "longitude"
    /\ LET r == float(strip(s))
       IN  IF r.ok THEN longitude' = <<r.v>> /\ e' = e /\ pc' = "radius"
           ELSE longitude' = longitude /\ e' = <<"could not convert string to float">>
                /\ pc' = "except"
    /\ typed' = Append(typed, s)
    /\ UNCHANGED <<libVars, webVars, app, latitude, base_radius, data, report_output, stdout>>

\* base_radius = float(input(...).strip()), then the three range checks
InputRadius(s) ==
    /\ pc = "radius"
    /\ LET r == float(strip(s))
       IN  IF ~r.ok
           THEN base_radius' = base_radius /\ pc' = "except"
                /\ e' = <<"could not convert string to float">>
           ELSE /\ base_radius' = <<r.v>>
                /\ IF ~(FLe(Int2F(0), latitude[1]) /\ FLe(latitude[1], Int2F(90)))
                   THEN e' = <<"Latitude must be between 0 and 90.">> /\ pc' = "except"
                   ELSE IF ~(FLe(Int2F(0), longitude[1]) /\ FLe(longitude[1], Int2F(180)))
                   THEN e' = <<"Longitude must be between 0 and 180 (East).">>
                        /\ pc' = "except"
                   ELSE IF FLe(r.v, Int2F(0))
                   THEN e' = <<"Radius must be positive.">> /\ pc' = "except"
                   ELSE e' = e /\ pc' = "calculate"
    /\ typed' = Append(typed, s)
    /\ UNCHANGED <<libVars, webVars, app, latitude, longitude, data, report_output, stdout>>

Except_wrong ==
    /\ pc = "except"
    /\ stdout' = Append(stdout, <<"ERROR: Invalid input.", e[1]>>)
    /\ pc' = "calculate"
    /\ UNCHANGED <<libVars, webVars, app, typed, latitude, longitude, base_radius, e, data, report_output>>
\* except ValueError as e: print the error and return
Except ==
    /\ pc = "except"
    /\ stdout' = Append(stdout, <<"ERROR: Invalid input.", e[1]>>)
    /\ pc' = "returned"
    /\ UNCHANGED <<libVars, webVars, app, typed, latitude, longitude, base_radius, e, data, report_output>>

\* data = calculate_yantra_dimensions(latitude, longitude, base_radius)
Calculate ==
    /\ pc = "calculate"
    /\ data' = <<calculate_yantra_dimensions(latitude[1], longitude[1], base_radius[1])>>
    /\ pc' = "render"
    /\ UNCHANGED <<libVars, webVars, app, typed, latitude, longitude, base_radius, e, report_output, stdout>>

\* report_output = template.render(data=data)
Render ==
    /\ pc = "render"
    /\ report_output' = <<render(data[1])>>
    /\ pc' = "print"
    /\ UNCHANGED <<libVars, webVars, app, typed, latitude, longitude, base_radius, e, data, stdout>>

Rule == "=================================================="
\* the prints that end main()
PrintReport ==
    /\ pc = "print"
    /\ stdout' = IF app = "yantra_app"
                 THEN stdout \o <<Rule, "      *** GENERATED YANTRA CONSTRUCTION REPORT ***",
                                  Rule, report_output[1], Rule>>
                 ELSE stdout \o <<report_output[1],
                                  "Thank you for using the Yantra Generator.">>
    /\ pc' = "returned"
    /\ UNCHANGED <<libVars, webVars, app, typed, latitude, longitude, base_radius, e, data, report_output>>

Next ==
    \/ Start
    \/ \E s \in LatitudeTexts : InputLatitude(s)
    \/ \E s \in LongitudeTexts : InputLongitude(s)
    \/ \E s \in RadiusTexts : InputRadius(s)
    \/ Except
    \/ Calculate
    \/ Render
    \/ PrintReport

Spec == Init /\ [][Next]_vars

(***************************************************************************)
(* A client of yantra_core calls its two functions, in any order.          *)
(***************************************************************************)
MaxCalls == 3
DimensionArgs ==
    { <<Dec(FALSE, 269167, 10000), Dec(FALSE, 758167, 10000), Int2F(10)>>,
      <<Dec(FALSE, 269167, 10000), Dec(FALSE, 758167, 10000), Int2F(3)>>,
      <<Int2F(0), Dec(FALSE, 825, 10), Int2F(10)>> }
OffsetArgs == { <<Dec(FALSE, 758167, 10000)>>, <<Dec(FALSE, 825, 10)>> }

InitCalls == app = "yantra_core" /\ CliOff /\ LibOff /\ WebOff

CallDimensions(a) ==
    /\ app = "yantra_core"
    /\ Len(calls) < MaxCalls
    /\ calls' = Append(calls, [fn |-> "calculate_yantra_dimensions", args |-> a,
                               ret |-> calculate_yantra_dimensions(a[1], a[2], a[3])])
    /\ UNCHANGED <<app, cliVars, webVars>>

CallTimeOffset(a) ==
    /\ app = "yantra_core"
    /\ Len(calls) < MaxCalls
    /\ calls' = Append(calls, [fn |-> "calculate_time_offset", args |-> a,
                               ret |-> calculate_time_offset(a[1])])
    /\ UNCHANGED <<app, cliVars, webVars>>

NextCalls ==
    \/ \E a \in DimensionArgs : CallDimensions(a)
    \/ \E a \in OffsetArgs : CallTimeOffset(a)

SpecCalls == InitCalls /\ [][NextCalls]_vars

(***************************************************************************)
(* yantra_web_app.py: the script.  Streamlit runs it from top to bottom    *)
(* when the page is opened, again whenever a widget gets another value,    *)
(* and again (with the button true) when "Generate Report" is clicked.     *)
(* The number inputs hold floats within their limits and the selectbox     *)
(* holds one of units, so generate_yantra_data does not raise and the      *)
(* except branch of the button block is never taken.                       *)
(***************************************************************************)
MaxReruns == 4
LatitudeValues == {Dec(FALSE, 2691, 100), Dec(TRUE, 2691, 100)}
LongitudeValues == {Dec(FALSE, 7582, 100), Dec(FALSE, 825, 10)}
RadiusValues == {Int2F(3), Int2F(500)}

\* what one run of the script draws: the sidebar with the widget values, the
\* message under the button, and the report when session_state has results
Draw(lat, lon, R, unit, state, message) ==
    [inputs  |-> <<lat, lon, R, unit>>,
     message |-> message,
     report  |-> IF "results" \in DOMAIN state THEN <<state["results"]>> ELSE None]

InitWeb ==
    /\ app = "yantra_web_app" /\ CliOff /\ LibOff
    /\ lat_deg = Dec(FALSE, 2691, 100)
    /\ lon_deg = Dec(FALSE, 7582, 100)
    /\ R_input = Int2F(3)
    /\ unit_name = units[1]
    /\ session_state = <<>>
    /\ page = Draw(lat_deg, lon_deg, R_input, unit_name, session_state, "")
    /\ runs = 1

Rerun_wrong(lat, lon, R, unit) ==
    /\ app = "yantra_web_app"
    /\ runs < MaxReruns
    /\ <<lat, lon, R, unit>> # <<lat_deg, lon_deg, R_input, unit_name>>
    /\ lat_deg' = lat /\ lon_deg' = lon /\ R_input' = R /\ unit_name' = unit
    /\ session_state' = <<>>
    /\ page' = Draw(lat, lon, R, unit, <<>>, "")
    /\ runs' = runs + 1
    /\ UNCHANGED <<app, cliVars, libVars>>
\* a run of the script without the button
Rerun(lat, lon, R, unit) ==
    /\ app = "yantra_web_app"
    /\ runs < MaxReruns
    /\ <<lat, lon, R, unit>> # <<lat_deg, lon_deg, R_input, unit_name>>
    /\ lat_deg' = lat /\ lon_deg' = lon /\ R_input' = R /\ unit_name' = unit
    /\ session_state' = session_state
    /\ page' = Draw(lat, lon, R, unit, session_state, "")
    /\ runs' = runs + 1
    /\ UNCHANGED <<app, cliVars, libVars>>

ChangeLatitude(v) == Rerun(v, lon_deg, R_input, unit_name)
ChangeLongitude(v) == Rerun(lat_deg, v, R_input, unit_name)
ChangeRadius(v) == Rerun(lat_deg, lon_deg, v, unit_name)
SelectUnit(u) == Rerun(lat_deg, lon_deg, R_input, u)

\* a run of the script with the button: results are calculated from the
\* widget values and put into st.session_state['results']
ClickGenerate ==
    /\ app = "yantra_web_app"
    /\ runs < MaxReruns
    /\ LET results == generate_yantra_data(lat_deg, lon_deg, R_input, unit_name)
       IN  /\ session_state' = ("results" :> results) @@ session_state
           /\ page' = Draw(lat_deg, lon_deg, R_input, unit_name, session_state',
                           "Dimensions Calculated Successfully!")
    /\ runs' = runs + 1
    /\ UNCHANGED <<app, cliVars, libVars, lat_deg, lon_deg, R_input, unit_name>>

NextWeb ==
    \/ \E v \in LatitudeValues : ChangeLatitude(v)
    \/ \E v \in LongitudeValues : ChangeLongitude(v)
    \/ \E v \in RadiusValues : ChangeRadius(v)
    \/ \E i \in 1..Len(units) : SelectUnit(units[i])
    \/ ClickGenerate

SpecWeb == InitWeb /\ [][NextWeb]_vars

(***************************************************************************)
(* deg_to_dms of yantra_web_app.py called on its own: a client passes it   *)
(* decimal degrees, as generate_yantra_data does with the latitude, the    *)
(* longitude and the colatitude, and calls records each argument and the   *)
(* text returned.                                                          *)
(***************************************************************************)
MaxDmsCalls == 2
\* the degrees passed, as counts of 10^-4 degree: the two sidebar defaults
\* and their negatives, 0, both range ends, a colatitude, exact halves, and
\* values whose binary64 lies just above (0.3) or just below (1.15) a minute
DegreeUnits4 ==
    {269100, -269100, 758200, -758200, 0, 1800000, -900000, 630900,
     455000, -455000, 3000, 11500, -11500}
OfUnits4(u) == IF u < 0 THEN Dec(TRUE, -u, 10^4) ELSE Dec(FALSE, u, 10^4)

InitDms == app = "deg_to_dms" /\ CliOff /\ LibOff /\ WebOff

CallDegToDms(u) ==
    /\ app = "deg_to_dms"
    /\ Len(calls) < MaxDmsCalls
    /\ calls' = Append(calls, [fn |-> "deg_to_dms", args |-> <<OfUnits4(u)>>,
                               ret |-> deg_to_dms(OfUnits4(u))])
    /\ UNCHANGED <<app, cliVars, webVars>>

NextDms == \E u \in DegreeUnits4 : CallDegToDms(u)

SpecDms == InitDms /\ [][NextDms]_vars

(***************************************************************************)
(* Properties of the command-line programs.                                *)
(***************************************************************************)
\* a formatted number as a signed count of its last decimal place
Signed(t) == IF t.neg THEN -FmtUnits(t) ELSE FmtUnits(t)
\* the decimal a typed text writes, in units of 10^-4
Units4(s) ==
    LET t == literal(strip(s))
    IN  (IF t.neg THEN -1 ELSE 1) * t.n * (10^4 \div t.den)
Abs(n) == IF n < 0 THEN -n ELSE n
Calculated == data # None
TypedLatitude == Units4(typed[1])
TypedLongitude == Units4(typed[2])
Welcome ==
    <<"--- WELCOME TO YANTRA DIMENSION GENERATOR ---",
      "Please enter the required geographical data for the construction site.">>

\* C1: the time offset is labelled by the sign of (longitude - 82.5) * 4:
\* "AHEAD OF" for every longitude above 82.5, "BEHIND" for every longitude
\* below it, and at 82.5 the minute value is exactly 0 and the string is
\* always "00h 00m 00s BEHIND IST".
C1_LabelBySign ==
    Calculated =>
        LET r == data[1]
        IN  /\ TypedLongitude > 825000 => r.time_offset_str.direction = "AHEAD OF"
            /\ TypedLongitude < 825000 => r.time_offset_str.direction = "BEHIND"
            /\ TypedLongitude = 825000 =>
                   /\ FIsZero(r.time_offset_min)
                   /\ r.time_offset_str =
                          [hours |-> <<0, 0>>, minutes |-> <<0, 0>>,
                           seconds |-> <<0, 0>>, direction |-> "BEHIND"]
C1_Witness ==
    /\ Calculated
    /\ TypedLongitude = 825000
    /\ data[1].time_offset_str.direction = "BEHIND"

InRange ==
    /\ FLe(Int2F(0), latitude[1]) /\ FLe(latitude[1], Int2F(90))
    /\ FLe(Int2F(0), longitude[1]) /\ FLe(longitude[1], Int2F(180))
    /\ FGt(base_radius[1], Int2F(0))
\* C2: once the three inputs are parsed, main() goes on to the calculation
\* if and only if 0 <= latitude <= 90, 0 <= longitude <= 180 and radius > 0.
C2_ProceedsIffInRange ==
    base_radius # None => (e = None <=> InRange)

\* C3: when a typed text is no number, or a parsed latitude, longitude or
\* radius is out of range, the run ends with the error message alone:
\* calculate_yantra_dimensions is not called, nothing is rendered, and
\* nothing but the welcome lines and the error is printed.
C3_AbortsWithoutResult ==
    LET noNumber   == \E i \in 1..Len(typed) : literal(strip(typed[i])).k = "bad"
        outOfRange == /\ base_radius # None
                      /\ \/ FLt(latitude[1], Int2F(0)) \/ FGt(latitude[1], Int2F(90))
                         \/ FLt(longitude[1], Int2F(0)) \/ FGt(longitude[1], Int2F(180))
                         \/ FLe(base_radius[1], Int2F(0))
    IN  /\ noNumber \/ outOfRange => e # None
        /\ e # None =>
               /\ data = None /\ report_output = None
               /\ pc \in {"except", "returned"}
               /\ pc = "except" => stdout = Welcome
               /\ pc = "returned" =>
                      stdout = Append(Welcome, <<"ERROR: Invalid input.", e[1]>>)
C3_Witness ==
    /\ pc = "returned"
    /\ e = <<"Radius must be positive.">>
    /\ stdout = Append(Welcome, <<"ERROR: Invalid input.", e[1]>>)

\* C4: the reported rasivalaya_zd_ws less the reported rasivalaya_zd_ss is
\* 46.88, give or take one unit of the third decimal place.
C4_SolsticeSpread ==
    Calculated =>
        Abs(Signed(data[1].rasivalaya_zd_ws) - Signed(data[1].rasivalaya_zd_ss) - 46880) <= 1
C4_Witness ==
    /\ Calculated
    /\ data[1].rasivalaya_zd_ss.neg
    /\ Signed(data[1].rasivalaya_zd_ws) - Signed(data[1].rasivalaya_zd_ss) = 46880

\* C5: for every latitude in [0, 90] the reported samrat_angle is the
\* latitude and the reported nadivalaya_tilt is 90 - latitude, each rounded
\* to the nearest third decimal place, and the two reported angles add up to
\* 90 give or take one unit of the third decimal place.
C5_AnglesFromLatitude ==
    Calculated =>
        LET angle == Signed(data[1].samrat_angle)
            tilt  == Signed(data[1].nadivalaya_tilt)
        IN  /\ Abs(10 * angle - TypedLatitude) <= 5
            /\ Abs(10 * tilt - (900000 - TypedLatitude)) <= 5
            /\ Abs(angle + tilt - 90000) <= 1
C5_Witness ==
    /\ Calculated
    /\ TypedLatitude = 269167
    /\ Signed(data[1].samrat_angle) = 26917
    /\ Signed(data[1].nadivalaya_tilt) = 63083

\* C9: the hours, minutes and seconds of time_offset_str add up to the whole
\* seconds of |(longitude - 82.5) * 4| * 60, minutes and seconds are at most
\* 59, and time_offset_min is the signed (longitude - 82.5) * 4.
C9_Decomposition ==
    Calculated =>
        LET t == data[1].time_offset_str
            h == DigitsValue(t.hours)
            m == DigitsValue(t.minutes)
            s == DigitsValue(t.seconds)
        IN  /\ h * 3600 + m * 60 + s
                   = Floor(FMul(FAbs(FMul(FSub(longitude[1], IST_REFERENCE_LONGITUDE),
                                          Int2F(4))), Int2F(60)).m)
            /\ m <= 59 /\ s <= 59
            /\ Signed(FmtF(data[1].time_offset_min, 4)) = 4 * (TypedLongitude - 825000)
            /\ TypedLongitude < 825000 => data[1].time_offset_min.neg
C9_Witness ==
    /\ Calculated
    /\ TypedLongitude = 758167
    /\ data[1].time_offset_str = [hours |-> <<0, 0>>, minutes |-> <<2, 6>>,
                                  seconds |-> <<4, 3>>, direction |-> "BEHIND"]
    /\ data[1].time_offset_min.neg

\* C10 as the spec has it: the reported samrat_height is radius * tan of
\* the latitude in radians to 3 decimal places, "5.081" for latitude
\* 26.9167 and radius 10.0.
C10_GnomonHeightAsWritten ==
    Calculated =>
        /\ data[1].samrat_height
               = FmtF(FMul(base_radius[1], math_tan(math_radians(latitude[1]))), 3)
        /\ TypedLatitude = 269167 /\ Units4(typed[3]) = 100000 /\ base_radius[1].k = "fin"
               => data[1].samrat_height =
                      [neg |-> FALSE, int |-> <<5>>, frac |-> <<0, 8, 1>>, word |-> ""]
\* C10, amended: the reported samrat_height is radius * tan of the latitude
\* in radians to 3 decimal places, "5.077" for latitude 26.9167 and radius
\* 10.0.
C10_GnomonHeight ==
    Calculated =>
        /\ data[1].samrat_height
               = FmtF(FMul(base_radius[1], math_tan(math_radians(latitude[1]))), 3)
        /\ TypedLatitude = 269167 /\ Units4(typed[3]) = 100000 /\ base_radius[1].k = "fin"
               => data[1].samrat_height =
                      [neg |-> FALSE, int |-> <<5>>, frac |-> <<0, 7, 7>>, word |-> ""]
C10_Witness ==
    /\ Calculated
    /\ TypedLatitude = 269167 /\ Units4(typed[3]) = 100000 /\ base_radius[1].k = "fin"
    /\ Signed(data[1].samrat_height) = 5077

(***************************************************************************)
(* Properties of the web page and of the calls of yantra_core.             *)
(***************************************************************************)
Stored == "results" \in DOMAIN session_state
\* the input radius of a stored record in tenths, as the number input shows it
StoredTenths == Signed(FmtF(session_state["results"].R_input, 1))

\* C6: with the Angula unit selected the radius used is the input radius
\* times 0.02 and the unit symbol is "m" (500 gives 10.0); with meters, feet
\* or centimeters the radius is the input radius and the symbol is the
\* unit's own name.
C6_UnitResolution ==
    Stored =>
        LET r == session_state["results"]
        IN  IF r.unit = units[4]
            THEN /\ r.unit_symbol = <<"m">>
                 /\ r.samrat_r.unit = <<"m">>
                 /\ Signed(r.samrat_r.text) = 2 * StoredTenths
                 /\ StoredTenths = 5000 => r.samrat_r.text.int = <<1, 0>>
            ELSE /\ r.unit \in {units[1], units[2], units[3]}
                 /\ r.unit_symbol = r.unit
                 /\ r.samrat_r.unit = r.unit
                 /\ Signed(r.samrat_r.text) = 100 * StoredTenths
C6_Witness ==
    /\ Stored
    /\ session_state["results"].unit = units[4]
    /\ StoredTenths = 5000
    /\ Signed(session_state["results"].samrat_r.text) = 10000
    /\ session_state["results"].unit_symbol = <<"m">>

C8_NoReuseAsWritten ==
    page.report # None =>
        page.report[1] = generate_yantra_data(page.inputs[1], page.inputs[2],
                                              page.inputs[3], page.inputs[4])
\* C8, amended: a run of the page with the Generate button displays the
\* record calculated from the inputs of that run; every other run displays
\* again what the run before it displayed, whatever the inputs have become.
C8_KeptUntilNextGenerate ==
    [][ /\ page'.message = "Dimensions Calculated Successfully!" =>
               page'.report = <<generate_yantra_data(lat_deg', lon_deg', R_input', unit_name')>>
        /\ page'.message # "Dimensions Calculated Successfully!" =>
               page'.report = page.report ]_vars
C8_Witness ==
    /\ page.report # None
    /\ page.message = ""
    /\ page.report[1].R_input # page.inputs[3]
\* C12: the two offset lines of a rendered report word the direction alike,
\* for every accepted longitude: the template line reads "ahead of" exactly
\* when time_offset_str reads "AHEAD OF" and "behind" exactly when it reads
\* "BEHIND"; at longitude 82.5 both read behind; and the report printed is
\* the report rendered.
C12_DirectionsAgree ==
    report_output # None =>
        LET rep == report_output[1]
        IN  /\ rep.offset_wording \in {"ahead of", "behind"}
            /\ rep.time_offset_str.direction \in {"AHEAD OF", "BEHIND"}
            /\ rep.offset_wording = "ahead of" <=> rep.time_offset_str.direction = "AHEAD OF"
            /\ rep.offset_wording = "behind" <=> rep.time_offset_str.direction = "BEHIND"
            /\ rep.time_offset_str = data[1].time_offset_str
            /\ TypedLongitude = 825000 =>
                   rep.offset_wording = "behind" /\ rep.time_offset_str.direction = "BEHIND"
            /\ TypedLongitude > 825000 => rep.offset_wording = "ahead of"
            /\ pc = "returned" => stdout[Len(stdout) - 1] = rep

\* a report for longitude 82.5 has been rendered and printed
C12_Witness ==
    /\ pc = "returned" /\ report_output # None
    /\ TypedLongitude = 825000
    /\ report_output[1].offset_wording = "behind"

(***************************************************************************)
(* Properties of deg_to_dms.                                               *)
(***************************************************************************)
\* C11: deg_to_dms discards the sign.  Of every call made: a call whose
\* argument has the same magnitude, whatever its sign, returned the same
\* text; the degrees part is the integer part of the magnitude; the minutes
\* part is the integer part of the fractional remainder times 60, as the
\* binary64 product, and lies in 0..59; the seconds part is not negative
\* and, with the minutes, gives back the fraction of the degree to the
\* hundredth of a second printed.
C11_SignDiscarded ==
    \A i \in 1..Len(calls) :
        LET x       == calls[i].args[1]
            r       == calls[i].ret
            ax      == FAbs(x)
            k       == DigitsValue(r.d)
            m       == DigitsValue(r.m)
            m_float == FMul(FSub(ax, Int2F(k)), Int2F(60))
        IN  calls[i].fn = "deg_to_dms" =>
              /\ \A j \in 1..Len(calls) :
                     (calls[j].fn = "deg_to_dms" /\ FAbs(calls[j].args[1]) = ax)
                         => calls[j].ret = r
              /\ m \in 0..59
              /\ FLe(Int2F(m), m_float) /\ FLt(m_float, Int2F(m + 1))
              /\ ~r.s.neg /\ r.s.word = ""
              /\ \A u \in DegreeUnits4 :
                     x = OfUnits4(u) =>
                         /\ k = Abs(u) \div 10^4
                         /\ Abs(m * 6000 + FmtUnits(r.s) - (Abs(u) % 10^4) * 36) <= 1

\* a negative and a positive argument of the same magnitude have both been
\* converted, to a text with minutes and seconds in it
C11_Witness ==
    /\ app = "deg_to_dms"
    /\ \E i, j \in 1..Len(calls) :
           /\ calls[i].args[1].neg /\ ~calls[j].args[1].neg
           /\ FAbs(calls[i].args[1]) = calls[j].args[1]
           /\ calls[i].ret = calls[j].ret
           /\ DigitsValue(calls[i].ret.m) > 0 /\ FmtUnits(calls[i].ret.s) > 0

====
